---- MODULE Spec2Model ----
(***************************************************************************)
(* Model of the trading bot: the trade manager (strategy.py, class         *)
(* Strategy: execute_trade, trail_sl_tp, manage_trade), the weighted-vote  *)
(* entry check (Strategy.check_trade_conditions) and the rolling           *)
(* indicators (indicators.py, class Indicators).                           *)
(*                                                                         *)
(* Numbers.  Prices, ATR values and losses are Python floats in the        *)
(* source.  The model uses exact integer arithmetic: the trail factor is   *)
(* the rational KNum/KDen and ATR values are drawn as multiples of KDen,   *)
(* so that atr_multiplier * atr is an exact integer.  Floating-point       *)
(* rounding is not modelled.                                               *)
(*                                                                         *)
(* None.  A Python value that is either None or an object is a sequence of *)
(* length 0 (None) or 1 (the object).                                      *)
(***************************************************************************)
EXTENDS Integers, Sequences, FiniteSets, TLC

VARIABLES
    daily_loss_limit,   \* Strategy.daily_loss_limit
    daily_loss,         \* Strategy.daily_loss
    active_trade,       \* Strategy.active_trade: <<>> is None, <<t>> a trade dict
    op,                 \* name of the last method called on the Strategy
    in_price,           \* its price argument (entry_price / latest_price)
    in_atr,             \* its atr argument
    ret,                \* what it returned
    trailed,            \* manage_trade: the dict trail_sl_tp returned (line 79)
    row,                \* check_trade_conditions: df.iloc[-1]
    decision,           \* check_trade_conditions: "pending", "True", "False"
    bars,               \* Indicators: the input DataFrame, a sequence of bars
    period,             \* Indicators: the period argument
    computed,           \* Indicators: the four series have been computed
    out                 \* Indicators: the series returned, by indicator name

vars == <<daily_loss_limit, daily_loss, active_trade, op, in_price, in_atr,
          ret, trailed, row, decision, bars, period, computed, out>>

tradeVars == <<daily_loss_limit, daily_loss, active_trade, op, in_price,
               in_atr, ret, trailed>>
signalVars == <<row, decision>>
indVars == <<bars, period, computed, out>>

----------------------------------------------------------------------------
(* Bounds of the model *)

MaxPrice == 5
MaxAtrSteps == 2
MaxLossLimit == 2

(* atr_multiplier = 0.5 = KNum / KDen *)
KNum == 1
KDen == 2

Prices == 0..MaxPrice
ATRs == {KDen * m : m \in 0..MaxAtrSteps}
PositiveATRs == ATRs \ {0}
LossLimits == 1..MaxLossLimit

Abs(x) == IF x < 0 THEN -x ELSE x
Max(a, b) == IF a >= b THEN a ELSE b

----------------------------------------------------------------------------
(* Strategy: the trade manager *)

\* self.atr_multiplier * atr
AtrAdjustment(atr) == (KNum * atr) \div KDen

\* if self.daily_loss >= self.daily_loss_limit
RiskLimitReached_gt == daily_loss > daily_loss_limit
RiskLimitReached == daily_loss >= daily_loss_limit

\* the dict execute_trade builds
NewTrade(entry_price, atr) ==
    [entry_price |-> entry_price,
     stop_loss   |-> entry_price - AtrAdjustment(atr),
     take_profit |-> entry_price + AtrAdjustment(atr)]

ExecuteTrade(entry_price, atr) ==
    /\ op' = "execute_trade"
    /\ in_price' = entry_price
    /\ in_atr' = atr
    /\ trailed' = <<>>
    /\ IF RiskLimitReached
       THEN /\ ret' = "None"
            /\ UNCHANGED active_trade
       ELSE /\ active_trade' = <<NewTrade(entry_price, atr)>>
            /\ ret' = "Trade"
    /\ UNCHANGED <<daily_loss, daily_loss_limit>>
    /\ UNCHANGED <<signalVars, indVars>>

\* trail_sl_tp: a new dict, the argument is not modified
trail_sl_tp_nomax(trade_details, latest_price, atr) ==
    LET atr_adjustment == AtrAdjustment(atr)
    IN IF latest_price > trade_details.entry_price + atr_adjustment
       THEN [entry_price |-> trade_details.entry_price,
             stop_loss   |-> latest_price - atr_adjustment,
             take_profit |-> latest_price + atr_adjustment]
       ELSE trade_details
trail_sl_tp(trade_details, latest_price, atr) ==
    LET entry_price == trade_details.entry_price
        stop_loss == trade_details.stop_loss
        take_profit == trade_details.take_profit
        atr_adjustment == AtrAdjustment(atr)
    IN IF latest_price > entry_price + atr_adjustment
       THEN [entry_price |-> entry_price,
             stop_loss   |-> Max(stop_loss, latest_price - atr_adjustment),
             take_profit |-> latest_price + atr_adjustment]
       ELSE [entry_price |-> entry_price,
             stop_loss   |-> stop_loss,
             take_profit |-> take_profit]

\* the if / elif / fall-through of manage_trade, lines 81-94
ExitStatus_slfirst(trade, latest_price) ==
    IF latest_price <= trade.stop_loss THEN "Stop Loss Hit"
    ELSE IF latest_price >= trade.take_profit THEN "Take Profit Hit"
    ELSE "Trade Active"
ExitStatus(trade, latest_price) ==
    IF latest_price >= trade.take_profit THEN "Take Profit Hit"
    ELSE IF latest_price <= trade.stop_loss THEN "Stop Loss Hit"
    ELSE "Trade Active"

\* loss = entry_price - latest_price; self.daily_loss += abs(loss)
LossAdded_stop(trade, latest_price) == Abs(trade.entry_price - trade.stop_loss)
LossAdded(trade, latest_price) ==
    LET loss == trade.entry_price - latest_price
    IN Abs(loss)

ManageTrade(latest_price, atr) ==
    /\ op' = "manage_trade"
    /\ in_price' = latest_price
    /\ in_atr' = atr
    /\ IF active_trade = <<>>
       THEN /\ ret' = "No Active Trade"
            /\ trailed' = <<>>
            /\ UNCHANGED <<active_trade, daily_loss>>
       ELSE LET t == trail_sl_tp(active_trade[1], latest_price, atr)
                status == ExitStatus(t, latest_price)
            IN /\ trailed' = <<t>>
               /\ ret' = status
               /\ active_trade' = IF status = "Trade Active" THEN <<t>> ELSE <<>>
               /\ daily_loss' = IF status = "Stop Loss Hit"
                                THEN daily_loss + LossAdded(t, latest_price)
                                ELSE daily_loss
    /\ UNCHANGED daily_loss_limit
    /\ UNCHANGED <<signalVars, indVars>>

\* Strategy.__init__
TradeInit ==
    /\ daily_loss_limit \in LossLimits
    /\ daily_loss = 0
    /\ active_trade = <<>>
    /\ op = "init"
    /\ in_price = 0
    /\ in_atr = 0
    /\ ret = ""
    /\ trailed = <<>>

SignalIdle ==
    /\ row = <<>>
    /\ decision = "pending"

IndIdle ==
    /\ bars = <<>>
    /\ period = 1
    /\ computed = FALSE
    /\ out = <<>>

Init == TradeInit /\ SignalIdle /\ IndIdle

Next ==
    \/ \E p \in Prices, a \in ATRs : ExecuteTrade(p, a)
    \/ \E p \in Prices, a \in ATRs : ManageTrade(p, a)

Spec == Init /\ [][Next]_vars

\* the same manager driven only with atr > 0
NextPos ==
    \/ \E p \in Prices, a \in PositiveATRs : ExecuteTrade(p, a)
    \/ \E p \in Prices, a \in PositiveATRs : ManageTrade(p, a)

SpecPos == Init /\ [][NextPos]_vars

----------------------------------------------------------------------------
(* Strategy.check_trade_conditions: the weighted-vote entry check *)

\* thresholds written as literals in check_trade_conditions
RvolMin == 2
AdxMin == 20
IvRankMin == 50
RequiredVotes == 2

\* how far around a threshold the inputs of the model range
SignalSpread == 1

SignalPrices == 1..(1 + SignalSpread)
Around(t) == (t - SignalSpread)..(t + SignalSpread)

\* a column the row may lack: the empty function, or the column alone
Optional(key, values) == {<<>>} \cup {(key :> v) : v \in values}

\* df.iloc[-1]: close, VWAP, EMA_9, EMA_21 always present; RVOL, ADX and
\* IV_Rank present or not
Rows ==
    {base @@ rv @@ ad @@ iv :
        base \in [close : SignalPrices, VWAP : SignalPrices,
                  EMA_9 : SignalPrices, EMA_21 : SignalPrices],
        rv \in Optional("RVOL", Around(RvolMin)),
        ad \in Optional("ADX", Around(AdxMin)),
        iv \in Optional("IV_Rank", Around(IvRankMin))}

\* pandas Series.get(key, default)
Get(series, key, default) ==
    IF key \in DOMAIN series THEN series[key] ELSE default

\* a Python bool as a summand of sum([...])
BoolToInt(b) == IF b THEN 1 ELSE 0

check_trade_conditions_ge(latest) ==
    LET price_above_vwap == latest["close"] > latest["VWAP"]
        ema_crossover == latest["EMA_9"] > latest["EMA_21"]
        high_rvol == Get(latest, "RVOL", 1) >= RvolMin
        strong_trend == Get(latest, "ADX", 0) > AdxMin
        iv_rank_ok == Get(latest, "IV_Rank", 0) >= IvRankMin
        conditions_met == BoolToInt(price_above_vwap) + BoolToInt(ema_crossover)
                          + BoolToInt(high_rvol) + BoolToInt(strong_trend)
    IN conditions_met >= RequiredVotes /\ iv_rank_ok
check_trade_conditions(latest) ==
    LET price_above_vwap == latest["close"] > latest["VWAP"]
        ema_crossover == latest["EMA_9"] > latest["EMA_21"]
        high_rvol == Get(latest, "RVOL", 1) >= RvolMin
        strong_trend == Get(latest, "ADX", 0) > AdxMin
        iv_rank_ok == Get(latest, "IV_Rank", 0) > IvRankMin
        conditions_met == BoolToInt(price_above_vwap) + BoolToInt(ema_crossover)
                          + BoolToInt(high_rvol) + BoolToInt(strong_trend)
    IN conditions_met >= RequiredVotes /\ iv_rank_ok

CheckTradeConditions ==
    /\ decision = "pending"
    /\ decision' = IF check_trade_conditions(row) THEN "True" ELSE "False"
    /\ UNCHANGED row
    /\ UNCHANGED <<tradeVars, indVars>>

SignalInit ==
    /\ row \in Rows
    /\ decision = "pending"

InitSignal == TradeInit /\ SignalInit /\ IndIdle

NextSignal == CheckTradeConditions

SpecSignal == InitSignal /\ [][NextSignal]_vars

----------------------------------------------------------------------------
(* Indicators: the rolling indicators over a bar sequence                  *)
(*                                                                         *)
(* A pandas Series is a sequence of cells; a cell is <<x>> for the number  *)
(* x and <<>> for NaN.  Quotients are truncated to integers, and           *)
(* x / y * 100 is computed as (100 * x) \div y; which cells are NaN does   *)
(* not depend on that.                                                     *)

MaxBars == 2
MaxPeriod == 2
MaxIndPrice == 2
MaxVolume == 1
MaxIV == 1

\* 1 / 1e-9, the guard added to every denominator, scaled down to the range
\* of the model's integers
EpsInv == 1000

NaN == <<>>
Num(x) == <<x>>
IsNaN(c) == c = NaN

\* well-formed bars: non-negative numbers with high >= low
Bars ==
    {b \in [high : 1..MaxIndPrice, low : 1..MaxIndPrice, close : 1..MaxIndPrice,
            volume : 0..MaxVolume, IV : 0..MaxIV] : b.high >= b.low}

BarSeqs == UNION {[1..n -> Bars] : n \in 1..MaxBars}

\* data[column]
Column(data, column) == [i \in 1..Len(data) |-> Num(data[i][column])]

\* arithmetic on cells: NaN in, NaN out
CSub(x, y) == IF IsNaN(x) \/ IsNaN(y) THEN NaN ELSE Num(x[1] - y[1])
CAdd(x, y) == IF IsNaN(x) \/ IsNaN(y) THEN NaN ELSE Num(x[1] + y[1])
CAbs(x) == IF IsNaN(x) THEN NaN ELSE Num(Abs(x[1]))
\* 100 * x / (y + 1e-9)
CPctEps(x, y) ==
    IF IsNaN(x) \/ IsNaN(y) THEN NaN
    ELSE IF y[1] = 0 THEN Num(100 * x[1] * EpsInv)
    ELSE Num((100 * x[1]) \div y[1])
\* x / (y + 1e-9)
CDivEps(x, y) ==
    IF IsNaN(x) \/ IsNaN(y) THEN NaN
    ELSE IF y[1] = 0 THEN Num(x[1] * EpsInv)
    ELSE Num(x[1] \div y[1])
\* x > y on cells: False when either is NaN
CGt(x, y) == ~IsNaN(x) /\ ~IsNaN(y) /\ x[1] > y[1]

SSub(a, b) == [i \in 1..Len(a) |-> CSub(a[i], b[i])]
SAbs(a) == [i \in 1..Len(a) |-> CAbs(a[i])]

\* Series.shift()
Shift(s) == [i \in 1..Len(s) |-> IF i = 1 THEN NaN ELSE s[i - 1]]
\* Series.diff()
Diff(s) == SSub(s, Shift(s))

SetMax(S) == CHOOSE x \in S : \A y \in S : x >= y
SetMin(S) == CHOOSE x \in S : \A y \in S : x <= y

\* pd.concat([a, b, c], axis=1).max(axis=1): the row maximum, NaN skipped
RowMaxSkipNa(a, b, c) ==
    [i \in 1..Len(a) |->
        LET present == {x[1] : x \in {a[i], b[i], c[i]} \ {NaN}}
        IN IF present = {} THEN NaN ELSE Num(SetMax(present))]

\* np.maximum.reduce([a, b, c]): the elementwise maximum, NaN propagated
NpMaximumReduce(a, b, c) ==
    [i \in 1..Len(a) |->
        IF IsNaN(a[i]) \/ IsNaN(b[i]) \/ IsNaN(c[i]) THEN NaN
        ELSE Num(SetMax({a[i][1], b[i][1], c[i][1]}))]

\* rolling(window=w, min_periods=1): the cells of the window ending at i
\* that are not NaN
WindowIdx(s, w, i) == {j \in Max(1, i - w + 1)..i : ~IsNaN(s[j])}

RECURSIVE SumOver(_, _)
SumOver(s, idx) ==
    IF idx = {} THEN 0
    ELSE LET j == CHOOSE k \in idx : TRUE
         IN s[j][1] + SumOver(s, idx \ {j})

RollingSum(s, w) ==
    [i \in 1..Len(s) |->
        LET idx == WindowIdx(s, w, i)
        IN IF Cardinality(idx) < 1 THEN NaN ELSE Num(SumOver(s, idx))]
RollingMean(s, w) ==
    [i \in 1..Len(s) |->
        LET idx == WindowIdx(s, w, i)
        IN IF Cardinality(idx) < 1 THEN NaN
           ELSE Num(SumOver(s, idx) \div Cardinality(idx))]
RollingMin(s, w) ==
    [i \in 1..Len(s) |->
        LET idx == WindowIdx(s, w, i)
        IN IF Cardinality(idx) < 1 THEN NaN
           ELSE Num(SetMin({s[j][1] : j \in idx}))]
RollingMax(s, w) ==
    [i \in 1..Len(s) |->
        LET idx == WindowIdx(s, w, i)
        IN IF Cardinality(idx) < 1 THEN NaN
           ELSE Num(SetMax({s[j][1] : j \in idx}))]

calculate_atr(data, p) ==
    LET high_low == SSub(Column(data, "high"), Column(data, "low"))
        high_close == SAbs(SSub(Column(data, "high"), Shift(Column(data, "close"))))
        low_close == SAbs(SSub(Column(data, "low"), Shift(Column(data, "close"))))
        true_range == RowMaxSkipNa(high_low, high_close, low_close)
    IN RollingMean(true_range, p)

calculate_adx(data, p) ==
    LET n == Len(data)
        up_move == Diff(Column(data, "high"))
        down_move == Diff(Column(data, "low"))
        plus_dm == [i \in 1..n |->
                       IF CGt(up_move[i], down_move[i]) /\ CGt(up_move[i], Num(0))
                       THEN up_move[i] ELSE Num(0)]
        minus_dm == [i \in 1..n |->
                       IF CGt(down_move[i], up_move[i]) /\ CGt(down_move[i], Num(0))
                       THEN down_move[i] ELSE Num(0)]
        tr1 == SSub(Column(data, "high"), Column(data, "low"))
        tr2 == SAbs(SSub(Column(data, "high"), Shift(Column(data, "close"))))
        tr3 == SAbs(SSub(Column(data, "low"), Shift(Column(data, "close"))))
        true_range == NpMaximumReduce(tr1, tr2, tr3)
        tr_sum == RollingSum(true_range, p)
        plus_sum == RollingSum(plus_dm, p)
        minus_sum == RollingSum(minus_dm, p)
        plus_di == [i \in 1..n |-> CPctEps(plus_sum[i], tr_sum[i])]
        minus_di == [i \in 1..n |-> CPctEps(minus_sum[i], tr_sum[i])]
        dx == [i \in 1..n |->
                  CPctEps(CAbs(CSub(plus_di[i], minus_di[i])),
                          CAdd(plus_di[i], minus_di[i]))]
    IN RollingMean(dx, p)

calculate_rvol(data, p) ==
    LET avg_volume == RollingMean(Column(data, "volume"), p)
    IN [i \in 1..Len(data) |-> CDivEps(Column(data, "volume")[i], avg_volume[i])]

calculate_iv_rank(data, p) ==
    LET iv == Column(data, "IV")
        min_iv == RollingMin(iv, p)
        max_iv == RollingMax(iv, p)
    IN [i \in 1..Len(data) |->
           CPctEps(CSub(iv[i], min_iv[i]), CSub(max_iv[i], min_iv[i]))]

\* the caller computes the four rolling indicators of the bar sequence
ComputeIndicators ==
    /\ ~computed
    /\ computed' = TRUE
    /\ out' = [ATR     |-> calculate_atr(bars, period),
               ADX     |-> calculate_adx(bars, period),
               RVOL    |-> calculate_rvol(bars, period),
               IV_Rank |-> calculate_iv_rank(bars, period)]
    /\ UNCHANGED <<bars, period>>
    /\ UNCHANGED <<tradeVars, signalVars>>

IndInit ==
    /\ bars \in BarSeqs
    /\ period \in 1..MaxPeriod
    /\ computed = FALSE
    /\ out = <<>>

InitInd == TradeInit /\ SignalIdle /\ IndInit

NextInd == ComputeIndicators

SpecInd == InitInd /\ [][NextInd]_vars

----------------------------------------------------------------------------
(* Properties of the trade manager *)

\* the trade the last manage_trade call worked on, after its trailing step
Trailed == trailed[1]

\* C1: once daily_loss >= daily_loss_limit, execute_trade returns None and
\* leaves active_trade and daily_loss as they were; no step ever decreases
\* daily_loss or changes the limit, so no trade is created from then on.
C1_RiskLimitNoOp ==
    [][ /\ daily_loss' >= daily_loss
        /\ daily_loss_limit' = daily_loss_limit
        /\ (daily_loss >= daily_loss_limit /\ op' = "execute_trade")
              => /\ ret' = "None"
                 /\ active_trade' = active_trade
                 /\ daily_loss' = daily_loss
        /\ daily_loss >= daily_loss_limit
              => (active_trade' = <<>> \/ active_trade' = active_trade) ]_vars

\* C1 witness: execute_trade was rejected with daily_loss exactly at the limit
C1_Witness ==
    /\ op = "execute_trade"
    /\ ret = "None"
    /\ daily_loss = daily_loss_limit
    /\ active_trade = <<>>

\* C2: the trade a successful execute_trade(entry_price, atr) creates has
\* stop_loss = entry_price - k*atr, take_profit = entry_price + k*atr and
\* stop_loss < entry_price < take_profit, for every atr >= 0.
C2_BracketAtCreation ==
    (op = "execute_trade" /\ ret = "Trade") =>
        /\ active_trade # <<>>
        /\ active_trade[1].entry_price = in_price
        /\ KDen * active_trade[1].stop_loss = KDen * in_price - KNum * in_atr
        /\ KDen * active_trade[1].take_profit = KDen * in_price + KNum * in_atr
        /\ active_trade[1].stop_loss < active_trade[1].entry_price
        /\ active_trade[1].entry_price < active_trade[1].take_profit

\* C3: a manage_trade call on an open trade never lowers stop_loss and never
\* changes entry_price; a trade that stays open is the trailed one.
C3_StopLossRatchet ==
    [][ (op' = "manage_trade" /\ active_trade # <<>>) =>
            /\ trailed' # <<>>
            /\ trailed'[1].stop_loss >= active_trade[1].stop_loss
            /\ trailed'[1].entry_price = active_trade[1].entry_price
            /\ (active_trade' # <<>> => active_trade' = trailed') ]_vars

\* C3 witness: the trailing branch was taken and the stop was kept above
\* latest_price - adjustment, the trade staying open
C3_Witness ==
    /\ op = "manage_trade"
    /\ ret = "Trade Active"
    /\ active_trade # <<>>
    /\ KDen * in_price > KDen * active_trade[1].entry_price + KNum * in_atr
    /\ KDen * active_trade[1].stop_loss > KDen * in_price - KNum * in_atr

\* C4: a manage_trade call on an open trade never lowers take_profit.
C4_TakeProfitNeverLowered ==
    [][ (op' = "manage_trade" /\ active_trade # <<>>) =>
            trailed'[1].take_profit >= active_trade[1].take_profit ]_vars

\* C5: manage_trade returns "Stop Loss Hit" exactly when, after trailing,
\* take-profit is not hit and latest_price <= stop_loss; it then adds
\* |entry_price - latest_price| to daily_loss and clears the trade; every
\* other outcome leaves daily_loss unchanged.
C5_StopLossAccounting ==
    [][ op' = "manage_trade" =>
            /\ (ret' = "Stop Loss Hit") <=>
                   /\ active_trade # <<>>
                   /\ trailed' # <<>>
                   /\ ~(in_price' >= trailed'[1].take_profit)
                   /\ in_price' <= trailed'[1].stop_loss
            /\ ret' = "Stop Loss Hit" =>
                   /\ daily_loss' =
                         daily_loss + Abs(active_trade[1].entry_price - in_price')
                   /\ active_trade' = <<>>
            /\ ret' \in {"No Active Trade", "Trade Active", "Take Profit Hit"} =>
                   daily_loss' = daily_loss
            /\ ret' \in {"No Active Trade", "Trade Active", "Take Profit Hit",
                         "Stop Loss Hit"} ]_vars

\* C5 witness: a stop-loss exit below the stop level was accounted
C5_Witness ==
    /\ op = "manage_trade"
    /\ ret = "Stop Loss Hit"
    /\ active_trade = <<>>
    /\ in_price < Trailed.stop_loss
    /\ daily_loss >= Trailed.entry_price - in_price
    /\ Trailed.entry_price - in_price > 0

\* C6: when after the trailing step both latest_price >= take_profit and
\* latest_price <= stop_loss hold, manage_trade returns "Take Profit Hit",
\* clears the trade and leaves daily_loss unchanged.
C6_TakeProfitFirst ==
    [][ ( /\ op' = "manage_trade"
          /\ active_trade # <<>>
          /\ trailed' # <<>>
          /\ in_price' >= trailed'[1].take_profit
          /\ in_price' <= trailed'[1].stop_loss )
        => /\ ret' = "Take Profit Hit"
           /\ active_trade' = <<>>
           /\ daily_loss' = daily_loss ]_vars

\* C6 witness: both exit conditions held in one manage_trade call
C6_Witness ==
    /\ op = "manage_trade"
    /\ ret = "Take Profit Hit"
    /\ trailed # <<>>
    /\ in_price >= Trailed.take_profit
    /\ in_price <= Trailed.stop_loss
    /\ active_trade = <<>>

\* C9: execute_trade takes effect only when no trade is open: a call while a
\* trade is open leaves that trade's entry_price, stop_loss and take_profit
\* as they were, and an open trade is removed only by a manage_trade exit.
C9_OpenOnlyWhenIdle ==
    [][ /\ (active_trade # <<>> /\ op' = "execute_trade")
              => active_trade' = active_trade
        /\ (active_trade # <<>> /\ active_trade' = <<>>)
              => (op' = "manage_trade"
                  /\ ret' \in {"Take Profit Hit", "Stop Loss Hit"}) ]_vars

\* C10: with atr > 0 on every call, whenever manage_trade returns
\* "Stop Loss Hit" the exit price is at or below the entry price, so the
\* amount added to daily_loss is the loss of the trade.
C10_LossOnlyOnLosingExit ==
    (op = "manage_trade" /\ ret = "Stop Loss Hit") =>
        in_price <= Trailed.entry_price

----------------------------------------------------------------------------
(* Properties of the entry check *)

\* the four voting conditions that hold on a row, an absent column not holding
VotesHeld(r) ==
    {c \in {"vwap", "ema", "rvol", "adx"} :
        \/ c = "vwap" /\ r.close > r.VWAP
        \/ c = "ema" /\ r.EMA_9 > r.EMA_21
        \/ c = "rvol" /\ "RVOL" \in DOMAIN r /\ r.RVOL >= RvolMin
        \/ c = "adx" /\ "ADX" \in DOMAIN r /\ r.ADX > AdxMin}

IvGateOpen(r) == "IV_Rank" \in DOMAIN r /\ r.IV_Rank > IvRankMin

\* C7: check_trade_conditions returns True iff at least RequiredVotes of the
\* four conditions hold and IV_Rank > IvRankMin; with IV_Rank <= IvRankMin or
\* absent it returns False whatever the votes; the row is not modified.
C7_WeightedVote ==
    /\ [](decision # "pending" =>
            /\ (decision = "True") <=>
                  (Cardinality(VotesHeld(row)) >= RequiredVotes /\ IvGateOpen(row))
            /\ ~IvGateOpen(row) => decision = "False")
    /\ [][row' = row]_vars

\* C7 witness: all four votes held and IV_Rank sat exactly on the threshold,
\* so the gate overrode the votes
C7_Witness ==
    /\ decision = "False"
    /\ Cardinality(VotesHeld(row)) = 4
    /\ "IV_Rank" \in DOMAIN row
    /\ row.IV_Rank = IvRankMin

----------------------------------------------------------------------------
(* Properties of the indicators *)

RollingIndicators == {"ATR", "ADX", "RVOL", "IV_Rank"}

\* C8: for every non-empty well-formed bar sequence and every period >= 1,
\* each of ATR, ADX, RVOL and IV_Rank is a series as long as the input whose
\* value is defined (not NaN) at every index, the first included.
C8_DefinedFromFirstBar ==
    computed =>
        \A name \in RollingIndicators :
            /\ Len(out[name]) = Len(bars)
            /\ \A i \in 1..Len(bars) : ~IsNaN(out[name][i])

====
